---- MODULE Spec2Model ----
(***************************************************************************)
(* A model of the 6502 GA simulation harness (src/src/simulate.py):        *)
(* the LCD bus snooper (LCDCapture), the firmware patcher (patch_delay),   *)
(* the stimulus injector, the tight-loop detector, the stepping loops, the *)
(* convergence monitor and the soft assertions, on the memory image and    *)
(* program counter of the py65 MPU they work on.                           *)
(*                                                                         *)
(* Bytes are naturals 0..255.  A character is modelled by its code point,  *)
(* a Python string by the sequence of its code points.  mpu.memory is a    *)
(* 64 KiB list of zeros after MPU(); the model keeps the cells a run       *)
(* touches in the function "memory" and reads every other cell as 0.       *)
(***************************************************************************)
EXTENDS Integers, Sequences, FiniteSets, TLC

VARIABLES
    memory,    \* mpu.memory: cell address -> byte (cells not in the domain hold 0)
    pc,        \* mpu.pc
    lcd,       \* the harness's LCDCapture: [lines, cursor, last_porta]
    lcd2,      \* a second LCDCapture on the same bus, polled at finer granularity
    call,      \* the last harness call made: [op, before, k]
    textId,    \* text driver: which text is being written to the display
    issued,    \* bus driver: number of strobes (snapshots) issued so far
    patchIdx,  \* patch_delay: number of signatures processed so far
    run,       \* the harness function being executed: its arguments, locals, result
    hist,      \* what has happened during the run: counts and observations
    regs       \* the other registers of the MPU: [a, x, y, sp, p]

vars == <<memory, pc, lcd, lcd2, call, textId, issued, patchIdx, run, hist, regs>>

\* the registers of a new MPU: a = x = y = 0, sp = FF, p = BREAK | UNUSED
RegsInit == [a |-> 0, x |-> 0, y |-> 0, sp |-> 255, p |-> 48]

----------------------------------------------------------------------------
(* Hardware addresses and bit masks.                                       *)

PORTB == 24576          \* 0x6000
PORTA == 24577          \* 0x6001
RS == 32                \* 0x20
E == 128                \* 0x80

(* Bounds of the model.                                                    *)
MaxLineLen == 17        \* a line buffer is not grown beyond this length
MaxCursor == 129        \* the cursor is not advanced beyond this value

\* x & m is nonzero, for a mask m with a single bit set
HasBit(x, m) == (x \div m) % 2 = 1

\* mpu.memory[a]
MemAt(mem, a) == IF a \in DOMAIN mem THEN mem[a] ELSE 0

\* mpu.memory[a] = v
MemWrite(mem, a, v) ==
    IF a \in DOMAIN mem THEN [mem EXCEPT ![a] = v] ELSE (a :> v) @@ mem

----------------------------------------------------------------------------
(* LCDCapture                                                              *)

LcdInit == [lines |-> << <<>>, <<>> >>, cursor |-> 0, last_porta |-> 0]

\* chr(portb) if 0x20 <= portb <= 0x7E else "?"
Chr(portb) == IF 32 <= portb /\ portb <= 126 THEN portb ELSE 63

\* a faulty variant of Rising: level-triggered, acts whenever enable is high
RisingLevel(porta, last_porta) == HasBit(porta, E)

\* (porta & E) and not (self.last_porta & E)
Rising(porta, last_porta) == HasBit(porta, E) /\ ~HasBit(last_porta, E)

\* a faulty variant of DataWrite: the line-1 range is off by one (cursor <= 16)
DataWriteOffByOne(l, portb) ==
    LET ch == IF 32 <= portb /\ portb <= 126 THEN portb ELSE 63
        lines == IF l.cursor <= 16
                     THEN <<Append(l.lines[1], ch), l.lines[2]>>
                 ELSE IF 64 <= l.cursor /\ l.cursor < 80
                     THEN <<l.lines[1], Append(l.lines[2], ch)>>
                 ELSE l.lines
    IN  [l EXCEPT !.lines = lines, !.cursor = l.cursor + 1]

\* a faulty variant of DataWrite: characters past column 16 wrap onto line 2
DataWriteWrap(l, portb) ==
    LET ch == IF 32 <= portb /\ portb <= 126 THEN portb ELSE 63
        lines == IF l.cursor < 16
                     THEN <<Append(l.lines[1], ch), l.lines[2]>>
                 ELSE IF 16 <= l.cursor /\ l.cursor < 32
                     THEN <<l.lines[1], Append(l.lines[2], ch)>>
                 ELSE l.lines
    IN  [l EXCEPT !.lines = lines, !.cursor = l.cursor + 1]

\* the data-write branch of step
DataWrite(l, portb) ==
    LET ch == Chr(portb)
        lines == IF l.cursor < 16
                     THEN <<Append(l.lines[1], ch), l.lines[2]>>
                 ELSE IF 64 <= l.cursor /\ l.cursor < 80
                     THEN <<l.lines[1], Append(l.lines[2], ch)>>
                 ELSE l.lines
    IN  [l EXCEPT !.lines = lines, !.cursor = l.cursor + 1]

\* a faulty variant of Command: clear empties the lines but keeps the cursor
CommandClearKeepsCursor(l, portb) ==
    IF portb = 1
        THEN [l EXCEPT !.lines = << <<>>, <<>> >>]
    ELSE IF HasBit(portb, 128)
        THEN [l EXCEPT !.cursor = portb % 128]
    ELSE l

\* a faulty variant of Command: set-address is applied only to a visible address
CommandValidated(l, portb) ==
    IF portb = 1
        THEN [l EXCEPT !.lines = << <<>>, <<>> >>, !.cursor = 0]
    ELSE IF HasBit(portb, 128) /\ (portb % 128 < 16 \/ (64 <= portb % 128 /\ portb % 128 < 80))
        THEN [l EXCEPT !.cursor = portb % 128]
    ELSE l

\* the command branch of step
Command(l, portb) ==
    IF portb = 1
        THEN [l EXCEPT !.lines = << <<>>, <<>> >>, !.cursor = 0]
    ELSE IF HasBit(portb, 128)
        THEN [l EXCEPT !.cursor = portb % 128]
    ELSE l

\* a faulty variant of LcdStepOp: last_porta is not updated at the end of the call
LcdStepNoLatch(l, porta, portb) ==
    IF Rising(porta, l.last_porta)
        THEN IF HasBit(porta, RS) THEN DataWrite(l, portb)
                                  ELSE Command(l, portb)
        ELSE l

\* LCDCapture.step, on the fields l of the instance and the two bus cells
LcdStepOp(l, porta, portb) ==
    LET acted == IF Rising(porta, l.last_porta)
                     THEN IF HasBit(porta, RS) THEN DataWrite(l, portb)
                                               ELSE Command(l, portb)
                     ELSE l
    IN  [acted EXCEPT !.last_porta = porta]

\* s.ljust(16)[:16]
Ljust16(s) ==
    LET padded == IF Len(s) >= 16 THEN s
                  ELSE s \o [i \in 1..(16 - Len(s)) |-> 32]
    IN  SubSeq(padded, 1, 16)

\* LCDCapture.display
Display(l) == <<Ljust16(l.lines[1]), Ljust16(l.lines[2])>>

Spaces16 == [i \in 1..16 |-> 32]

----------------------------------------------------------------------------
(* Spec: the bus snooper under an arbitrary bus.  mpu.step() is the        *)
(* external execution primitive: it may leave any snapshot on PORTA/PORTB  *)
(* and any program counter.  lcd.step() and lcd.display() may be called    *)
(* at any time.                                                            *)

\* <<PORTA, PORTB, pc>>: what an instruction of the firmware may leave on the
\* bus, and the address of the instruction after it
BusSnapshots ==
    { <<0, 1, 32768>>, <<RS, 65, 32768>>,               \* enable low
      <<E, 1, 32771>>,                                  \* command: clear
      <<E, 128, 32771>>, <<E, 192, 32771>>, <<E, 255, 32771>>,  \* set address
      <<E + RS, 65, 32771>> }                           \* data "A"

WithinBounds(l) ==
    /\ Len(l.lines[1]) <= MaxLineLen
    /\ Len(l.lines[2]) <= MaxLineLen
    /\ l.cursor <= MaxCursor

Init ==
    /\ memory = (PORTA :> 0) @@ (PORTB :> 0)
    /\ pc = 32768
    /\ lcd = LcdInit
    /\ lcd2 = LcdInit
    /\ call = [op |-> "none", k |-> 0, before |-> LcdInit]
    /\ textId = 0
    /\ issued = 0
    /\ patchIdx = 0
    /\ regs = RegsInit
    /\ run = <<>>
    /\ hist = <<>>

\* mpu.step(): the firmware executes one instruction
BusWrite(snaps) ==
    /\ \E snap \in snaps :
          /\ memory' = MemWrite(MemWrite(memory, PORTB, snap[2]), PORTA, snap[1])
          /\ pc' = snap[3]
    /\ call' = [op |-> "none", k |-> 0, before |-> lcd]
    /\ UNCHANGED <<lcd, lcd2, textId, issued, patchIdx, run, hist, regs>>

MpuStep == BusWrite(BusSnapshots)

\* a faulty variant of LcdStep: the snooper acknowledges a strobe by clearing enable
LcdStepAck ==
    /\ lcd' = LcdStepOp(lcd, MemAt(memory, PORTA), MemAt(memory, PORTB))
    /\ WithinBounds(lcd')
    /\ call' = [op |-> "step", k |-> 1, before |-> lcd]
    /\ memory' = MemWrite(memory, PORTA, MemAt(memory, PORTA) % 128)
    /\ UNCHANGED <<pc, lcd2, textId, issued, patchIdx, run, hist, regs>>

\* lcd.step()
LcdStep ==
    /\ lcd' = LcdStepOp(lcd, MemAt(memory, PORTA), MemAt(memory, PORTB))
    /\ WithinBounds(lcd')
    /\ call' = [op |-> "step", k |-> 1, before |-> lcd]
    /\ UNCHANGED <<memory, pc, lcd2, textId, issued, patchIdx, run, hist, regs>>

\* lcd.display()
LcdDisplay ==
    /\ call' = [op |-> "display", k |-> 0, before |-> lcd]
    /\ UNCHANGED <<memory, pc, lcd, lcd2, textId, issued, patchIdx, run, hist, regs>>

Next == MpuStep \/ LcdStep \/ LcdDisplay

Spec == Init /\ [][Next]_vars

----------------------------------------------------------------------------
(* Properties of LCDCapture.step under Spec.  In a state with              *)
(* call.op = "step" the last transition was a call of lcd.step():          *)
(* call.before holds the instance's fields when the call was made, lcd     *)
(* holds them on return, and PORTA/PORTB still hold what the call read.    *)

AfterStep == call.op = "step"
SeenA == MemAt(memory, PORTA)
SeenB == MemAt(memory, PORTB)
RisingSeen == HasBit(SeenA, E) /\ ~HasBit(call.before.last_porta, E)

\* C1: step is edge-triggered: a call changes the line buffers or the cursor
\* only if enable (0x80 of PORTA) is 1 in this call and was 0 in the previous
\* call; on a steady or falling enable nothing changes, whatever RS and the
\* data byte are.
C1_EdgeTriggered ==
    (AfterStep /\ (lcd.lines # call.before.lines \/ lcd.cursor # call.before.cursor))
        => (HasBit(SeenA, E) /\ ~HasBit(call.before.last_porta, E))

\* witness of C1: a call made with enable steady high, RS set and the cursor
\* in line 1 has returned and left lines and cursor as they were
C1_Witness ==
    /\ AfterStep
    /\ HasBit(SeenA, E) /\ HasBit(call.before.last_porta, E)
    /\ HasBit(SeenA, RS)
    /\ call.before.cursor < 16
    /\ call.before.lines[1] # <<>>
    /\ lcd.lines = call.before.lines /\ lcd.cursor = call.before.cursor

\* s is t with exactly one character appended
OneAppended(s, t) == Len(s) = Len(t) + 1 /\ SubSeq(s, 1, Len(t)) = t

\* C2: on a rising edge with RS set, exactly one character is appended to
\* line 1 iff the cursor before the write is < 16, to line 2 iff
\* 64 <= cursor < 80, to neither line otherwise; the cursor afterwards is the
\* previous cursor plus one in all three cases.
C2_DataWrite ==
    (AfterStep /\ RisingSeen /\ HasBit(SeenA, RS)) =>
        LET c == call.before.cursor
            old == call.before.lines
        IN  /\ lcd.cursor = c + 1
            /\ IF c < 16 THEN OneAppended(lcd.lines[1], old[1])
                         ELSE lcd.lines[1] = old[1]
            /\ IF 64 <= c /\ c < 80 THEN OneAppended(lcd.lines[2], old[2])
                                    ELSE lcd.lines[2] = old[2]

\* witness of C2: a data write latched at cursor 79 went to line 2, and
\* line 1 kept its content
C2_Witness ==
    /\ AfterStep /\ RisingSeen /\ HasBit(SeenA, RS)
    /\ call.before.cursor = 79
    /\ OneAppended(lcd.lines[2], call.before.lines[2])
    /\ lcd.lines[1] = call.before.lines[1] /\ lcd.lines[1] # <<>>
    /\ lcd.cursor = 80

\* C3: from any display state, a command latched on a rising edge with RS
\* clear and data byte 1 leaves both line buffers empty and the cursor at 0,
\* and display() then returns two strings of 16 spaces.
C3_Clear ==
    (AfterStep /\ RisingSeen /\ ~HasBit(SeenA, RS) /\ SeenB = 1) =>
        /\ lcd.lines = << <<>>, <<>> >>
        /\ lcd.cursor = 0
        /\ Display(lcd) = <<Spaces16, Spaces16>>

\* witness of C3: a clear was latched on a display with text on both lines
\* and the cursor away from 0
C3_Witness ==
    /\ AfterStep /\ RisingSeen /\ ~HasBit(SeenA, RS) /\ SeenB = 1
    /\ call.before.lines[1] # <<>> /\ call.before.lines[2] # <<>>
    /\ call.before.cursor > 0
    /\ lcd.lines = << <<>>, <<>> >> /\ lcd.cursor = 0

\* C5 (as claimed): in every reachable state the cursor is within 0..127.
C5_CursorInRange == lcd.cursor \in 0..127

\* C6 (as claimed): in every reachable state each line buffer holds at most
\* 16 characters.
C6_LinesAtMost16 == Len(lcd.lines[1]) <= 16 /\ Len(lcd.lines[2]) <= 16

\* C9: the snooper is a passive observer: a call of step or display leaves
\* every memory cell (PORTA and PORTB included) and the program counter
\* unchanged, and display changes no field of the snooper either.
C9_PassiveObserver ==
    [][(call'.op # "none") =>
          /\ memory' = memory
          /\ pc' = pc
          /\ (call'.op = "display" => lcd' = lcd)]_vars

\* witness of C9: a call of step has latched a write (the snooper's own
\* fields changed) while the bus still shows the strobe
C9_Witness ==
    /\ AfterStep /\ RisingSeen
    /\ lcd.lines # call.before.lines
    /\ lcd.last_porta # call.before.last_porta
    /\ pc = 32771

----------------------------------------------------------------------------
(* SpecCmd: the bus snooper under every command byte.  Each step is the  *)
(* body of run_steps for one instruction (mpu.step(); lcd.step()): the     *)
(* instruction lowers enable, or strobes the data byte "A" or any byte     *)
(* 0..255 as a command.                                                    *)

MaxStrobes == 2         \* strobes of enable per run under SpecCmd

CmdSnapshots ==
    { <<E + RS, 65, 32771>> } \cup { <<E, b, 32771>> : b \in 0..255 }

\* mpu.step(); lcd.step() for an instruction leaving snap on the bus
Observe(snap) ==
    /\ memory' = MemWrite(MemWrite(memory, PORTB, snap[2]), PORTA, snap[1])
    /\ pc' = snap[3]
    /\ lcd' = LcdStepOp(lcd, snap[1], snap[2])
    /\ call' = [op |-> "step", k |-> 1, before |-> lcd]

CmdStrobe ==
    /\ issued < MaxStrobes
    /\ \E snap \in CmdSnapshots : Observe(snap)
    /\ issued' = issued + 1
    /\ UNCHANGED <<lcd2, textId, patchIdx, run, hist, regs>>

CmdRelease ==
    /\ HasBit(MemAt(memory, PORTA), E)
    /\ Observe(<<0, 0, 32768>>)
    /\ UNCHANGED <<lcd2, textId, issued, patchIdx, run, hist, regs>>

NextCmd == CmdStrobe \/ CmdRelease

SpecCmd == Init /\ [][NextCmd]_vars

\* C4: on a rising edge with RS clear and a data byte with its high bit set,
\* step sets the cursor to the low 7 bits of the byte, for every byte
\* 0x80..0xFF and whether or not the address is visible, and leaves both
\* line buffers unchanged; a command byte that is neither 1 nor has its high
\* bit set changes neither the lines nor the cursor.
C4_SetAddress ==
    (AfterStep /\ RisingSeen /\ ~HasBit(SeenA, RS)) =>
        /\ (SeenB >= 128 =>
               /\ lcd.cursor = SeenB - 128
               /\ lcd.lines = call.before.lines)
        /\ ((SeenB # 1 /\ SeenB < 128) =>
               /\ lcd.cursor = call.before.cursor
               /\ lcd.lines = call.before.lines)

\* witness of C4: the command 0xA0 was latched on a display holding text and
\* moved the cursor to 32, an address in neither visible range
C4_Witness ==
    /\ AfterStep /\ RisingSeen /\ ~HasBit(SeenA, RS)
    /\ SeenB = 160
    /\ call.before.cursor = 1
    /\ lcd.cursor = 32
    /\ lcd.lines = call.before.lines /\ lcd.lines[1] # <<>>

----------------------------------------------------------------------------
(* SpecPoll: two snoopers on one bus.  After each instruction lcd.step()   *)
(* is called once and lcd2.step() k >= 1 times in a row, the bus not       *)
(* changing between the repeated calls.                                    *)

MaxPolls == 3           \* calls of lcd2.step() per bus snapshot

RECURSIVE StepTimes(_, _, _, _)
\* k calls of step in a row on one bus snapshot
StepTimes(l, porta, portb, k) ==
    IF k = 0 THEN l
    ELSE StepTimes(LcdStepOp(l, porta, portb), porta, portb, k - 1)

MaxSnapshots == 8       \* bus snapshots per run under SpecPoll

PollSnapshot ==
    /\ issued < MaxSnapshots
    /\ \E snap \in BusSnapshots, k \in 1..MaxPolls :
          /\ memory' = MemWrite(MemWrite(memory, PORTB, snap[2]), PORTA, snap[1])
          /\ pc' = snap[3]
          /\ lcd' = LcdStepOp(lcd, snap[1], snap[2])
          /\ lcd2' = StepTimes(lcd2, snap[1], snap[2], k)
          /\ call' = [op |-> "poll", k |-> k, before |-> lcd]
    /\ issued' = issued + 1
    /\ UNCHANGED <<textId, patchIdx, run, hist, regs>>

NextPoll == PollSnapshot

SpecPoll == Init /\ [][NextPoll]_vars

\* C8: edge detection is insensitive to polling granularity: calling step
\* k >= 1 times in a row on each bus snapshot yields the same line buffers
\* and cursor as calling it once per snapshot.
C8_PollingGranularity ==
    lcd2.lines = lcd.lines /\ lcd2.cursor = lcd.cursor

\* witness of C8: a data write was latched on a snapshot polled more than
\* once by lcd2, after text had been written to line 2
C8_Witness ==
    /\ call.op = "poll" /\ call.k >= 2
    /\ RisingSeen /\ HasBit(SeenA, RS)
    /\ call.before.cursor = 65
    /\ Len(lcd2.lines[2]) = 2 /\ Len(call.before.lines[2]) = 1
    /\ lcd2.cursor = 66

----------------------------------------------------------------------------
(* SpecText: a driver writes a text to the display, one character per      *)
(* strobe of enable (RS set), with no command in between: the body of      *)
(* run_steps (mpu.step(); lcd.step()) for the instruction that raises      *)
(* enable and for the one that lowers it.  It may clear the display and    *)
(* start over with another text.                                           *)

MaxTexts == 3           \* number of texts the driver chooses from
MaxSent == 66           \* characters written per text

\* the i-th character of text k: printable ASCII, 0x20..0x7E
TextByte(k, i) == 32 + ((i * (2 * k - 1) + 94 * (k - 1)) % 95)

InitText ==
    /\ memory = (PORTA :> 0) @@ (PORTB :> 0)
    /\ pc = 32768
    /\ lcd = LcdInit
    /\ lcd2 = LcdInit
    /\ call = [op |-> "none", k |-> 0, before |-> LcdInit]
    /\ textId \in 1..MaxTexts
    /\ issued = 0
    /\ patchIdx = 0
    /\ regs = RegsInit
    /\ run = <<>>
    /\ hist = <<>>

\* the instruction raising enable for the next character, then lcd.step()
TextStrobe ==
    /\ ~HasBit(MemAt(memory, PORTA), E)
    /\ issued < MaxSent
    /\ LET b == TextByte(textId, issued + 1)
       IN  /\ memory' = MemWrite(MemWrite(memory, PORTB, b), PORTA, E + RS)
           /\ lcd' = LcdStepOp(lcd, E + RS, b)
    /\ pc' = 32771
    /\ issued' = issued + 1
    /\ call' = [op |-> "step", k |-> 1, before |-> lcd]
    /\ UNCHANGED <<lcd2, textId, patchIdx, run, hist, regs>>

\* the instruction lowering enable, then lcd.step()
TextRelease ==
    /\ HasBit(MemAt(memory, PORTA), E)
    /\ memory' = MemWrite(memory, PORTA, RS)
    /\ lcd' = LcdStepOp(lcd, RS, MemAt(memory, PORTB))
    /\ pc' = 32768
    /\ call' = [op |-> "step", k |-> 1, before |-> lcd]
    /\ UNCHANGED <<lcd2, textId, issued, patchIdx, run, hist, regs>>

\* the instruction strobing the clear command, then lcd.step(); the driver
\* starts over with any text
TextClear ==
    /\ ~HasBit(MemAt(memory, PORTA), E)
    /\ issued > 0
    /\ memory' = MemWrite(MemWrite(memory, PORTB, 1), PORTA, E)
    /\ lcd' = LcdStepOp(lcd, E, 1)
    /\ pc' = 32771
    /\ textId' \in 1..MaxTexts
    /\ issued' = 0
    /\ call' = [op |-> "step", k |-> 1, before |-> lcd]
    /\ UNCHANGED <<lcd2, patchIdx, run, hist, regs>>

NextText == TextStrobe \/ TextRelease \/ TextClear

SpecText == InitText /\ [][NextText]_vars

Min(a, b) == IF a <= b THEN a ELSE b

\* C7: from a cleared or fresh display, after n printable characters were
\* latched by n consecutive data writes, line 1 holds exactly the first
\* min(n, 16) of them in order: the 17th and later characters are dropped,
\* not wrapped, and line 2 stays empty for every n <= 64.
C7_NoWrap ==
    /\ lcd.lines[1] = [i \in 1..Min(issued, 16) |-> TextByte(textId, i)]
    /\ (issued <= 64 => lcd.lines[2] = <<>>)

\* witness of C7: the 17th character of a text written after a clear has
\* just been latched, and line 1 holds 16 characters
C7_Witness ==
    /\ issued = 17
    /\ call.op = "step" /\ RisingSeen /\ HasBit(SeenA, RS)
    /\ call.before.cursor = 16
    /\ Len(lcd.lines[1]) = 16
    /\ textId = 2 /\ pc = 32771 /\ lcd.cursor = 17

----------------------------------------------------------------------------
(* patch_delay                                                             *)

ScanLo == 32768         \* 0x8000, first address scanned
ScanHi == 65520         \* 0xFFF0, end of the scan (exclusive)
NotFound == -1          \* _find_and_patch's None

\* the signature and the patch bytes of the three _find_and_patch calls
Signatures ==
    << <<138, 72, 152, 72, 162, 200>>,      \* delay:    8A 48 98 48 A2 C8
       <<72, 169, 0, 141, 2, 96>>,          \* lcd_wait: 48 A9 00 8D 02 60
       <<138, 72, 152, 72, 162, 20>> >>     \* debounce: 8A 48 98 48 A2 14

Patches ==
    << <<96>>,                              \* 60
       <<72, 104, 96>>,                     \* 48 68 60
       <<96>> >>                            \* 60

\* all(mpu.memory[addr + i] == b for i, b in enumerate(signature))
MatchAt(mem, addr, signature) ==
    \A i \in 1..Len(signature) : MemAt(mem, addr + i - 1) = signature[i]

\* the address _find_and_patch returns: the first addr of
\* range(0x8000, 0xFFF0) at which the signature matches, or None
FindFirst(mem, signature) ==
    LET hits == {addr \in ScanLo..(ScanHi - 1) : MatchAt(mem, addr, signature)}
    IN  IF hits = {} THEN NotFound
        ELSE CHOOSE addr \in hits : \A other \in hits : addr <= other

\* a faulty variant of WriteBytes: the first patch byte is never written
RECURSIVE WriteBytesFromSecond(_, _, _, _)
WriteBytesFromSecond(mem, addr, patch_bytes, i) ==
    IF i > Len(patch_bytes) THEN mem
    ELSE IF i = 1 THEN WriteBytesFromSecond(mem, addr, patch_bytes, 2)
    ELSE WriteBytesFromSecond(MemWrite(mem, addr + i - 1, patch_bytes[i]),
                              addr, patch_bytes, i + 1)

\* for i, b in enumerate(patch_bytes): mpu.memory[addr + i] = b
RECURSIVE WriteBytes(_, _, _, _)
WriteBytes(mem, addr, patch_bytes, i) ==
    IF i > Len(patch_bytes) THEN mem
    ELSE WriteBytes(MemWrite(mem, addr + i - 1, patch_bytes[i]), addr, patch_bytes, i + 1)

\* a faulty variant of FindAndPatch: every occurrence of the signature is patched
FindAndPatchAll(mem, signature, patch_bytes) ==
    LET hits == {addr \in ScanLo..(ScanHi - 1) : MatchAt(mem, addr, signature)}
    IN  [x \in DOMAIN mem |->
            IF \E addr \in hits : addr <= x /\ x < addr + Len(patch_bytes)
                THEN LET addr == CHOOSE h \in hits : h <= x /\ x < h + Len(patch_bytes)
                     IN  patch_bytes[x - addr + 1]
                ELSE mem[x]]

\* the memory after _find_and_patch(signature, patch_bytes)
FindAndPatch(mem, signature, patch_bytes) ==
    LET addr == FindFirst(mem, signature)
    IN  IF addr = NotFound THEN mem
        ELSE WriteBytes(mem, addr, patch_bytes, 1)

----------------------------------------------------------------------------
(* SpecPatch: main() up to the reset: a ROM image has been loaded at       *)
(* 0x8000, patch_delay processes its three signatures in order, then the   *)
(* timer seed is written and the program counter is set from the reset     *)
(* vector.                                                                 *)

MaxBlocks == 2          \* byte blocks the ROM image is put together from

\* byte blocks a ROM image is put together from
Blocks ==
    << Signatures[1], Signatures[2], Signatures[3],
       <<72, 169, 0, 141, 2>>,              \* lcd_wait's first five bytes
       <<138, 72, 152, 72, 162>>,           \* delay's first five bytes
       <<234>> >>                           \* NOP

\* where the first block is loaded
Bases == {32768, 65513, 65519, 65520}

RECURSIVE Flatten(_)
Flatten(bs) == IF bs = <<>> THEN <<>> ELSE Blocks[Head(bs)] \o Flatten(Tail(bs))

\* cells outside the ROM: a copy of the delay signature in RAM at 0x0200,
\* the two I/O registers
RamCells ==
    [x \in 512..517 |-> Signatures[1][x - 511]] @@ (PORTB :> 138) @@ (PORTA :> 72)

\* the image with the bytes rom at base and the reset vector 0x8000
Image(base, rom) ==
    [x \in base..(base + Len(rom) - 1) |-> rom[x - base + 1]]
        @@ (65532 :> 0) @@ (65533 :> 128) @@ RamCells

Images ==
    { Image(base, Flatten(bs)) :
        base \in Bases,
        bs \in UNION { [1..n -> 1..Len(Blocks)] : n \in 1..MaxBlocks } }

InitPatch ==
    /\ memory \in {m \in Images : \A x \in DOMAIN m : x <= 65535}
    /\ pc = 0
    /\ lcd = LcdInit
    /\ lcd2 = LcdInit
    /\ call = [op |-> "none", k |-> 0, before |-> <<>>]
    /\ textId = 0
    /\ issued = 0
    /\ patchIdx = 0
    /\ regs = RegsInit
    /\ run = <<>>
    /\ hist = <<>>

\* a faulty variant of PatchNext: a signature that is not found ends
\* patch_delay with an error, the remaining signatures and the reset are
\* never reached
PatchNextRaise ==
    /\ patchIdx < Len(Signatures)
    /\ memory' = FindAndPatch(memory, Signatures[patchIdx + 1], Patches[patchIdx + 1])
    /\ patchIdx' = IF FindFirst(memory, Signatures[patchIdx + 1]) = NotFound
                       THEN Len(Signatures) + 2
                       ELSE patchIdx + 1
    /\ call' = [op |-> "patch", k |-> patchIdx + 1, before |-> memory]
    /\ UNCHANGED <<pc, lcd, lcd2, textId, issued, run, hist, regs>>

\* the next _find_and_patch call of patch_delay; its return value (the
\* address or None) is dropped by patch_delay, which goes on to the next call
PatchNext ==
    /\ patchIdx < Len(Signatures)
    /\ memory' = FindAndPatch(memory, Signatures[patchIdx + 1], Patches[patchIdx + 1])
    /\ patchIdx' = patchIdx + 1
    /\ call' = [op |-> "patch", k |-> patchIdx + 1, before |-> memory]
    /\ UNCHANGED <<pc, lcd, lcd2, textId, issued, run, hist, regs>>

\* mpu.memory[0x6004] = 0x42; mpu.pc = reset vector
Boot ==
    /\ patchIdx = Len(Signatures)
    /\ memory' = MemWrite(memory, 24580, 66)
    /\ pc' = MemAt(memory, 65532) + 256 * MemAt(memory, 65533)
    /\ patchIdx' = patchIdx + 1
    /\ call' = [op |-> "boot", k |-> 0, before |-> memory]
    /\ UNCHANGED <<lcd, lcd2, textId, issued, run, hist, regs>>

NextPatch == PatchNext \/ Boot

SpecPatch == InitPatch /\ [][NextPatch]_vars

\* C10: for each signature patch_delay applies the replacement at most once,
\* at the lowest address in 0x8000..0xFFEF where the whole signature matches
\* the image as it stands when that signature is processed; only the first
\* len(replacement) bytes there are written; every later occurrence, every
\* other byte of the matched region and every byte outside it (RAM, I/O
\* registers, the reset vector) is unchanged.
C10_FirstMatchOnly ==
    (call.op = "patch") =>
        LET old == call.before
            sig == Signatures[call.k]
            rep == Patches[call.k]
            hits == {a \in 32768..65519 :
                        \A i \in 1..6 : MemAt(old, a + i - 1) = sig[i]}
            cells == DOMAIN memory \cup DOMAIN old
        IN  IF hits = {}
                THEN \A x \in cells : MemAt(memory, x) = MemAt(old, x)
                ELSE \E a \in hits :
                        /\ \A h \in hits : a <= h
                        /\ \A x \in cells :
                              MemAt(memory, x) =
                                  IF a <= x /\ x < a + Len(rep)
                                      THEN rep[x - a + 1]
                                      ELSE MemAt(old, x)

\* witness of C10: the delay signature occurred at 0x8000 and again at
\* 0x8006; the first was patched to RTS and the second still matches
C10_Witness ==
    /\ call.op = "patch" /\ call.k = 1
    /\ MatchAt(call.before, 32768, Signatures[1])
    /\ MatchAt(call.before, 32774, Signatures[1])
    /\ MemAt(memory, 32768) = 96
    /\ MatchAt(memory, 32774, Signatures[1])
    /\ MatchAt(memory, 512, Signatures[1])

\* the signature occurs nowhere in 0x8000..0xFFEF of the image (no signature
\* starts with 0, so an occurrence starts at a cell the image holds)
Absent(mem, sig) ==
    \A a \in DOMAIN mem :
        (32768 <= a /\ a <= 65519) => \E i \in 1..6 : MemAt(mem, a + i - 1) # sig[i]

\* C11: when a signature is found nowhere in the scanned range, patch_delay
\* skips it without raising: that call leaves every byte of the image as it
\* was, and patch_delay stands at the next signature (or, after the last
\* one, at the rest of main), so the remaining signatures are still searched
\* and applied.
C11_NotFoundSkipped ==
    (call.op = "patch" /\ Absent(call.before, Signatures[call.k])) =>
        /\ \A x \in DOMAIN memory \cup DOMAIN call.before :
                MemAt(memory, x) = MemAt(call.before, x)
        /\ patchIdx = call.k

\* witness of C11: lcd_wait's signature was not found and the image was left
\* alone, with the debounce signature at 0x8000 still to be patched
C11_Witness ==
    /\ call.op = "patch" /\ call.k = 2
    /\ Absent(call.before, Signatures[2])
    /\ memory = call.before
    /\ patchIdx = 2
    /\ MatchAt(memory, 32768, Signatures[3])

----------------------------------------------------------------------------
(* SpecPatchTwice: patch_delay run again and again on one loaded image.    *)

MaxRuns == 2            \* runs of patch_delay over one image

\* the image after one run of patch_delay: the three _find_and_patch calls
\* in order, each on the image the one before left
PatchDelay(mem) ==
    FindAndPatch(
        FindAndPatch(
            FindAndPatch(mem, Signatures[1], Patches[1]),
            Signatures[2], Patches[2]),
        Signatures[3], Patches[3])

InitTwice ==
    /\ memory \in {m \in Images : \A x \in DOMAIN m : x <= 65535}
    /\ pc = 0
    /\ lcd = LcdInit
    /\ lcd2 = LcdInit
    /\ call = [op |-> "none", k |-> 0, before |-> <<>>]
    /\ textId = 0
    /\ issued = 0
    /\ patchIdx = 0
    /\ regs = RegsInit
    /\ run = [fn |-> "patch_delay", image |-> memory]
    /\ hist = [runs |-> 0]

\* one whole run of patch_delay
PatchDelayRun ==
    /\ hist.runs < MaxRuns
    /\ memory' = PatchDelay(memory)
    /\ hist' = [runs |-> hist.runs + 1]
    /\ call' = [op |-> "patch_delay", k |-> hist.runs + 1, before |-> memory]
    /\ UNCHANGED <<pc, lcd, lcd2, textId, issued, patchIdx, run, regs>>

NextTwice == PatchDelayRun

SpecPatchTwice == InitTwice /\ [][NextTwice]_vars

\* the addresses of 0x8000..0xFFEF at which the signature occurs in the image
Occurrences(mem, sig) ==
    {a \in DOMAIN mem :
        32768 <= a /\ a <= 65519 /\ \A i \in 1..6 : MemAt(mem, a + i - 1) = sig[i]}

\* each signature occurs at most once in the scanned range, and no
\* occurrence of the delay or the debounce signature directly follows the
\* bytes 48 A9 00 8D 02 (which its RTS would complete to lcd_wait's signature)
CleanImage(mem) ==
    /\ \A k \in 1..3 : Cardinality(Occurrences(mem, Signatures[k])) <= 1
    /\ \A a \in Occurrences(mem, Signatures[1]) \cup Occurrences(mem, Signatures[3]) :
           \E i \in 1..5 : MemAt(mem, a - 6 + i) # Signatures[2][i]

\* C12 as stated, not true of the code: for every memory image, running
\* patch_delay twice in succession leaves the image byte-for-byte identical
\* to running it once.
C12_Idempotent ==
    (call.op = "patch_delay" /\ call.k >= 2) => memory = call.before

\* C12, amended: a further run of patch_delay leaves the once-patched image
\* byte-for-byte as it is exactly when no signature occurs in 0x8000..0xFFEF
\* of the once-patched image; that is so for every loaded image in which
\* each signature occurs at most once in that range and no delay or
\* debounce occurrence directly follows the bytes 48 A9 00 8D 02.
C12_IdempotentWhenClean ==
    (call.op = "patch_delay" /\ call.k >= 2) =>
        /\ (memory = call.before) <=>
               (\A k \in 1..3 : Occurrences(call.before, Signatures[k]) = {})
        /\ CleanImage(run.image) => memory = call.before

\* witness of C12: the image held the delay routine at 0x8000 and lcd_wait
\* after it, once each; the first run patched both and the second run has
\* changed nothing
C12_Witness ==
    /\ call.op = "patch_delay" /\ call.k = 2
    /\ CleanImage(run.image)
    /\ Occurrences(run.image, Signatures[1]) = {32768}
    /\ Occurrences(run.image, Signatures[2]) = {32774}
    /\ MemAt(call.before, 32768) = 96 /\ MemAt(call.before, 32775) = 104
    /\ memory = call.before

----------------------------------------------------------------------------
(* inject_buttons                                                          *)

BTN_MORSE == 1          \* PA0
BTN_CHAR == 2           \* PA1
BTN_GO == 4             \* PA2
BTN_CANCEL == 8         \* PA3

\* the instruction at p is LDA $6001: AD 01 60
IsLdaPorta(mem, p) ==
    MemAt(mem, p) = 173 /\ MemAt(mem, p + 1) = 1 /\ MemAt(mem, p + 2) = 96

\* a faulty variant of InjectButtons: the buttons are written to PORTB
InjectButtonsWrongPort(mem, p, buttons) ==
    IF IsLdaPorta(mem, p)
        THEN MemWrite(mem, PORTB, (MemAt(mem, PORTB) \div 16) * 16 + (buttons % 16))
        ELSE mem

\* a faulty variant of InjectButtons: the high four bits of PORTA are cleared
InjectButtonsClearsHigh(mem, p, buttons) ==
    IF IsLdaPorta(mem, p) THEN MemWrite(mem, PORTA, buttons % 16) ELSE mem

\* the memory after inject_buttons(mpu, buttons) with mpu.pc = p:
\* mpu.memory[PORTA] = (mpu.memory[PORTA] & 0xF0) | (buttons & 0x0F)
InjectButtons(mem, p, buttons) ==
    IF IsLdaPorta(mem, p)
        THEN MemWrite(mem, PORTA, (MemAt(mem, PORTA) \div 16) * 16 + (buttons % 16))
        ELSE mem

----------------------------------------------------------------------------
(* SpecInject: inject_buttons called with any mask, at a program counter   *)
(* in ROM or next to the I/O registers, on any upcoming instruction.       *)

MaxInjects == 2         \* calls of inject_buttons in a row

\* button masks: none, each single button, all four, and a mask with bits
\* above the low four
ButtonMasks == {0, BTN_MORSE, BTN_CHAR, BTN_GO, BTN_CANCEL, 15, 245}

\* program counters: ROM, and the three at which the instruction's own
\* bytes overlap PORTA
InjectPcs == {32768, 24575, 24576, 24577}

\* upcoming instructions: LDA $6001 and its near misses
InjectInstrs ==
    { <<173, 1, 96>>, <<173, 1, 97>>, <<173, 0, 96>>, <<76, 1, 96>>, <<173, 2, 96>> }

\* values PORTA may hold (LCD control bits in the high half)
PortaValues == {0, 167, 255}

InitInject ==
    /\ pc \in InjectPcs
    /\ memory \in { [x \in pc..(pc + 2) |-> ins[x - pc + 1]] @@ (PORTA :> v) @@ (PORTB :> 0) :
                        ins \in InjectInstrs, v \in PortaValues }
    /\ lcd = LcdInit
    /\ lcd2 = LcdInit
    /\ call = [op |-> "none", k |-> 0, before |-> memory]
    /\ textId = 0
    /\ issued = 0
    /\ patchIdx = 0
    /\ regs = RegsInit
    /\ run = [fn |-> "inject_buttons"]
    /\ hist = [masks |-> <<>>, wrote |-> FALSE]

\* inject_buttons(mpu, buttons)
Inject(buttons) ==
    /\ Len(hist.masks) < MaxInjects
    /\ memory' = InjectButtons(memory, pc, buttons)
    /\ call' = [op |-> "inject", k |-> buttons, before |-> memory]
    /\ hist' = [masks |-> Append(hist.masks, buttons), wrote |-> IsLdaPorta(memory, pc)]
    /\ UNCHANGED <<pc, lcd, lcd2, textId, issued, patchIdx, run, regs>>

NextInject == \E buttons \in ButtonMasks : Inject(buttons)

SpecInject == InitInject /\ [][NextInject]_vars

\* C13: inject_buttons writes memory exactly when the three bytes at the
\* program counter are AD 01 60; then only the PORTA cell may differ, its low
\* four bits are buttons & 0x0F and its high four bits are as before; on any
\* other upcoming instruction the whole image is unchanged; a second call
\* with the same mask changes nothing further.
C13_InjectFrame ==
    (call.op = "inject") =>
        LET old == call.before
            lda == old[pc] = 173 /\ old[pc + 1] = 1 /\ old[pc + 2] = 96
            n == Len(hist.masks)
        IN  /\ hist.wrote <=> lda
            /\ DOMAIN memory = DOMAIN old
            /\ \A x \in DOMAIN old : x # PORTA => memory[x] = old[x]
            /\ lda => /\ memory[PORTA] % 16 = call.k % 16
                      /\ memory[PORTA] \div 16 = old[PORTA] \div 16
            /\ ~lda => memory = old
            /\ (n >= 2 /\ hist.masks[n] = hist.masks[n - 1]) => memory = old

\* witness of C13: at LDA $6001 with PORTA = A7, GO was injected twice: the
\* first call made PORTA A4, the second has left it A4
C13_Witness ==
    /\ call.op = "inject" /\ call.k = BTN_GO
    /\ hist.masks = <<BTN_GO, BTN_GO>> /\ hist.wrote
    /\ pc = 32768 /\ IsLdaPorta(memory, pc)
    /\ call.before[PORTA] = 164 /\ memory[PORTA] = 164

----------------------------------------------------------------------------
(* detect_tight_loop                                                       *)

\* a faulty variant of DetectTightLoop: a branch exactly 100 bytes back is
\* not reported
DetectTightLoopStrict(mem, p) ==
    LET op == MemAt(mem, p)
        offset == MemAt(mem, p + 1)
    IN  IF op = 76 /\ MemAt(mem, p + 1) = p % 256
                   /\ MemAt(mem, p + 2) = (p \div 256) % 256
            THEN TRUE
        ELSE IF op = 240 /\ offset >= 128
            THEN p - (p + 2 + (offset - 256)) < 100
        ELSE FALSE

\* what detect_tight_loop(mpu) returns with mpu.pc = p
DetectTightLoop(mem, p) ==
    LET op == MemAt(mem, p)
    IN  IF op = 76 /\ MemAt(mem, p + 1) = p % 256
                   /\ MemAt(mem, p + 2) = (p \div 256) % 256
            THEN TRUE                               \* JMP to self
        ELSE IF op = 240                            \* BEQ
            THEN LET offset == MemAt(mem, p + 1)
                 IN  IF offset >= 128
                         THEN LET target == p + 2 + (offset - 256)
                              IN  p - target <= 100
                         ELSE FALSE
        ELSE FALSE

----------------------------------------------------------------------------
(* SpecDetect: detect_tight_loop called on any upcoming instruction.       *)

\* program counters: ROM start, a page end, zero page
DetectPcs == {32768, 33023, 16}

\* opcodes: JMP abs, BEQ, BNE, LDA abs, BRK; the first operand byte takes
\* every value, the second the page of pc, 00 and 60
DetectOps == {76, 240, 208, 173, 0}

InitDetect ==
    /\ pc \in DetectPcs
    /\ memory \in { (pc :> op) @@ (pc + 1 :> b1) @@ (pc + 2 :> b2) :
                        op \in DetectOps, b1 \in 0..255,
                        b2 \in {(pc \div 256) % 256, 0, 96} }
    /\ lcd = LcdInit
    /\ lcd2 = LcdInit
    /\ call = [op |-> "none", k |-> FALSE, before |-> memory]
    /\ textId = 0
    /\ issued = 0
    /\ patchIdx = 0
    /\ regs = RegsInit
    /\ run = [fn |-> "detect_tight_loop"]
    /\ hist = <<>>

\* detect_tight_loop(mpu); k is the value returned
Detect ==
    /\ call.op = "none"
    /\ call' = [op |-> "detect", k |-> DetectTightLoop(memory, pc), before |-> memory]
    /\ UNCHANGED <<memory, pc, lcd, lcd2, textId, issued, patchIdx, run, hist, regs>>

NextDetect == Detect

SpecDetect == InitDetect /\ [][NextDetect]_vars

\* the upcoming instruction is a JMP whose operand is its own address
JmpToSelf == memory[pc] = 76 /\ memory[pc + 1] + 256 * memory[pc + 2] = pc

\* the address a relative branch at pc branches to: the address after the
\* two-byte instruction plus the offset byte taken as a signed number
BranchTarget ==
    pc + 2 + (IF memory[pc + 1] >= 128 THEN memory[pc + 1] - 256 ELSE memory[pc + 1])

\* C14: detect_tight_loop returns True at every pc whose instruction is a JMP
\* to that pc, returns False for every BEQ whose target lies exactly 101
\* bytes behind the branch, and returns True for the BEQ whose target lies
\* exactly 100 bytes behind: 100 is the largest backward distance reported.
C14_JmpSelfAndLimit ==
    (call.op = "detect") =>
        /\ JmpToSelf => call.k = TRUE
        /\ (memory[pc] = 240 /\ pc - BranchTarget = 101) => call.k = FALSE
        /\ (memory[pc] = 240 /\ pc - BranchTarget = 100) => call.k = TRUE
        /\ (memory[pc] = 240 /\ call.k = TRUE) => pc - BranchTarget <= 100

\* witness of C14: BEQ with offset byte 9A at 0x8000, target 100 bytes
\* behind, has been reported as a tight loop
C14_Witness ==
    /\ call.op = "detect" /\ call.k = TRUE
    /\ pc = 32768 /\ memory[pc] = 240 /\ memory[pc + 1] = 154
    /\ pc - BranchTarget = 100

\* C15 as stated, not true of the code: for a BEQ with any offset byte
\* detect_tight_loop returns True exactly when the target is at or behind the
\* branch by no more than 100 bytes (target <= pc and pc - target <= 100);
\* for every instruction that is neither such a BEQ nor a JMP to self it
\* returns False.
C15_BackwardOnly ==
    (call.op = "detect") =>
        (call.k = TRUE <=>
            \/ JmpToSelf
            \/ memory[pc] = 240 /\ BranchTarget <= pc /\ pc - BranchTarget <= 100)

----------------------------------------------------------------------------
(* run_until_solved                                                        *)

DIST_LO == 3            \* fitness distance, low byte
DIST_HI == 4            \* fitness distance, high byte
GEN_LO == 6             \* generation counter, low byte
GEN_HI == 7             \* generation counter, high byte
SampleEvery == 1000     \* steps between two looks at the GA cells
Timeout == -1           \* the generation returned on timeout

\* dist = mpu.memory[DIST_HI] * 256 + mpu.memory[DIST_LO]
Dist(mem) == MemAt(mem, DIST_HI) * 256 + MemAt(mem, DIST_LO)

\* gen = mpu.memory[GEN_HI] * 256 + mpu.memory[GEN_LO]
Gen(mem) == MemAt(mem, GEN_HI) * 256 + MemAt(mem, GEN_LO)

\* a faulty variant of Solved: distance zero is enough
SolvedAnyGen(mem) == Dist(mem) = 0

\* if dist == 0 and gen > 0
Solved(mem) == Dist(mem) = 0 /\ Gen(mem) > 0

\* a faulty variant of SampleDue: the cells are looked at half as often
SampleDueSparse(cycles) == cycles % (2 * SampleEvery) = 0

\* if cycles % 1000 == 0
SampleDue(cycles) == cycles % SampleEvery = 0

\* a faulty variant of BudgetLeft: one step more than the budget
BudgetLeftInclusive(cycles, max_cycles) == cycles <= max_cycles

\* while cycles < max_cycles
BudgetLeft(cycles, max_cycles) == cycles < max_cycles

----------------------------------------------------------------------------
(* SpecSolve: run_until_solved on a fresh machine (GA cells zero) with a   *)
(* step budget; each instruction of the firmware leaves the GA cells and   *)
(* the program counter in one of a few states.                             *)

MaxBudget == 2000       \* largest step budget tried

\* the budgets tried
Budgets == {0, 1, SampleEvery - 1, SampleEvery, SampleEvery + 500, MaxBudget}

\* what an instruction may leave behind: DIST_LO, DIST_HI, GEN_LO, GEN_HI
\* and the program counter
GaSnapshots ==
    { <<0, 0, 0, 0, 32768>>,        \* nothing computed yet: dist 0, gen 0
      <<5, 0, 7, 0, 32771>>,        \* running: dist 5, gen 7
      <<0, 1, 42, 0, 32771>>,       \* dist 256 (low byte 0), gen 42
      <<0, 0, 42, 0, 32768>>,       \* solved at gen 42
      <<0, 0, 0, 1, 32771>> }       \* solved at gen 256 (low byte 0)

\* the machine main() hands over: memory all zero but the ROM, which holds
\* LDA $6001 at 0x8000 and NOP at 0x8003
SolveImage ==
    (32768 :> 173) @@ (32769 :> 1) @@ (32770 :> 96) @@ (32771 :> 234)
        @@ (PORTA :> 0) @@ (PORTB :> 0)
        @@ (DIST_LO :> 0) @@ (DIST_HI :> 0) @@ (GEN_LO :> 0) @@ (GEN_HI :> 0)

\* mpu.step(): the instruction's effect on the GA cells
MpuWrite(mem, snap) ==
    [mem EXCEPT ![DIST_LO] = snap[1], ![DIST_HI] = snap[2],
                ![GEN_LO] = snap[3], ![GEN_HI] = snap[4]]

\* the registers after LDA has loaded the byte v: the accumulator holds v,
\* the Z flag (02) says v = 0 and the N flag (80) says v >= 128
Lda(r, v) ==
    LET z == IF HasBit(r.p, 2) THEN 2 ELSE 0
        n == IF HasBit(r.p, 128) THEN 128 ELSE 0
    IN  [r EXCEPT !.a = v,
                  !.p = r.p - z - n + (IF v = 0 THEN 2 ELSE 0)
                                    + (IF v >= 128 THEN 128 ELSE 0)]

InitSolve ==
    /\ memory = SolveImage
    /\ pc = 32768
    /\ lcd = LcdInit
    /\ lcd2 = LcdInit
    /\ call = [op |-> "none", k |-> 0, before |-> LcdInit]
    /\ textId = 0
    /\ issued = 0
    /\ patchIdx = 0
    /\ regs = RegsInit
    /\ \E budget \in Budgets :
           run = [fn |-> "run_until_solved", max_cycles |-> budget,
                  cycles |-> 0, last_gen |-> -1, result |-> <<>>]
    /\ hist = [executed |-> 0, sawSolved |-> FALSE, saw42 |-> FALSE, firstSolved |-> -1]

\* one pass of the while loop: inject_buttons(mpu, 0); mpu.step();
\* lcd.step(); cycles += 1; the look at the GA cells when it is due
SolveStep(snap) ==
    /\ run.result = <<>>
    /\ BudgetLeft(run.cycles, run.max_cycles)
    /\ LET injected == InjectButtons(memory, pc, 0)
           stepped == MpuWrite(injected, snap)
           cycles == run.cycles + 1
           executed == hist.executed + 1
       IN  /\ memory' = stepped
           /\ pc' = snap[5]
           /\ regs' = IF IsLdaPorta(injected, pc)
                          THEN Lda(regs, injected[PORTA]) ELSE regs
           /\ lcd' = LcdStepOp(lcd, stepped[PORTA], stepped[PORTB])
           /\ run' = IF SampleDue(cycles)
                         THEN IF Solved(stepped)
                                  THEN [run EXCEPT !.cycles = cycles,
                                                   !.result = <<Gen(stepped), cycles>>]
                                  ELSE [run EXCEPT !.cycles = cycles,
                                                   !.last_gen = Gen(stepped)]
                         ELSE [run EXCEPT !.cycles = cycles]
           /\ hist' = [executed |-> executed,
                       sawSolved |-> hist.sawSolved
                                        \/ (Dist(stepped) = 0 /\ Gen(stepped) > 0),
                       saw42 |-> hist.saw42
                                    \/ (Dist(stepped) = 0 /\ Gen(stepped) = 42),
                       firstSolved |->
                           IF /\ hist.firstSolved = -1
                              /\ executed % 1000 = 0
                              /\ Dist(stepped) = 0 /\ Gen(stepped) > 0
                               THEN Gen(stepped)
                               ELSE hist.firstSolved]
    /\ UNCHANGED <<lcd2, call, textId, issued, patchIdx>>

\* the loop ends on the budget: return -1, cycles
SolveTimeout ==
    /\ run.result = <<>>
    /\ ~BudgetLeft(run.cycles, run.max_cycles)
    /\ run' = [run EXCEPT !.result = <<Timeout, run.cycles>>]
    /\ UNCHANGED <<memory, pc, lcd, lcd2, call, textId, issued, patchIdx, hist, regs>>

NextSolve == (\E snap \in GaSnapshots : SolveStep(snap)) \/ SolveTimeout

SpecSolve == InitSolve /\ [][NextSolve]_vars

\* run_until_solved has returned
Returned == run.result # <<>>

\* run_until_solved has returned a generation, not the timeout value
ReportedSolved == Returned /\ run.result[1] # -1

\* C16: run_until_solved returns a solved result (gen, cycles) only at a
\* sampling point, cycles a positive multiple of 1000, at which the 16-bit
\* distance in cells 03/04 is zero and the 16-bit generation in cells 06/07
\* is greater than zero, and gen is that generation; it never reports solved
\* while the generation is 0.
C16_SolvedOnlyAtSample ==
    ReportedSolved =>
        /\ run.result[2] = hist.executed
        /\ run.result[2] > 0 /\ run.result[2] % 1000 = 0
        /\ memory[4] * 256 + memory[3] = 0
        /\ memory[7] * 256 + memory[6] > 0
        /\ run.result[1] = memory[7] * 256 + memory[6]

\* witness of C16: solved was reported at cycle 2000 with generation 256,
\* whose low byte is 0
C16_Witness ==
    /\ ReportedSolved
    /\ run.result = <<256, 2000>>
    /\ memory[6] = 0 /\ memory[7] = 1 /\ memory[3] = 0 /\ memory[4] = 0

\* C17 as stated, not true of the code: run_until_solved returns the
\* no-result value only if the distance did not reach zero (with a
\* generation above 0) within the budget.
C17_TimeoutOnlyIfNeverZero ==
    (Returned /\ run.result[1] = -1) => ~hist.sawSolved

\* C17, amended: for every budget max_cycles >= 0 run_until_solved executes
\* at most max_cycles instructions and then returns; when it returns the
\* no-result value it returns (-1, max_cycles) after exactly max_cycles
\* instructions, and it does so only if at no sampling point within the
\* budget (cycles a positive multiple of 1000) the distance was zero with a
\* generation above 0.
C17_BudgetBounded ==
    /\ hist.executed <= run.max_cycles
    /\ run.cycles = hist.executed
    /\ ~Returned => ENABLED NextSolve
    /\ (Returned /\ run.result[1] = -1) =>
           /\ run.result = <<-1, run.max_cycles>>
           /\ hist.executed = run.max_cycles
           /\ hist.firstSolved = -1

\* witness of C17: with budget 1500 the GA was solved at cycle 1500, after
\* the only sampling point, and the run has timed out at 1500
C17_Witness ==
    /\ run.max_cycles = 1500
    /\ run.result = <<-1, 1500>>
    /\ hist.executed = 1500
    /\ hist.sawSolved /\ hist.firstSolved = -1
    /\ memory[3] = 0 /\ memory[4] = 0 /\ memory[6] = 42

\* C18 as stated, not true of the code: starting with the generation and
\* distance cells zero and no buttons held, whenever the run reaches within
\* the budget a state where the distance is zero and the generation is 42,
\* run_until_solved reports generation 42 and not a timeout.
C18_Reports42Whenever ==
    (Returned /\ hist.saw42) => run.result[1] = 42

\* C18, amended: starting with the generation and distance cells zero and no
\* buttons held, whenever the run reaches a sampling point within the budget
\* (cycles a positive multiple of 1000) at which the distance is zero and
\* the generation is 42, no earlier sampling point having shown distance
\* zero with a generation above 0, run_until_solved returns there, reporting
\* generation 42 and not a timeout.
C18_Reports42AtSample ==
    (hist.firstSolved = 42) => run.result = <<42, hist.executed>>

\* witness of C18: distance 0 at generation 42 was met at the second
\* sampling point and reported
C18_Witness ==
    /\ hist.firstSolved = 42 /\ hist.saw42
    /\ hist.executed = 2000
    /\ run.result = <<42, 2000>>
    /\ run.last_gen = 7

----------------------------------------------------------------------------
(* check, and the checks main() makes through phase1 and phase2            *)

Phase1Checks == 5       \* calls of check in phase1
Phase2Checks == 7       \* calls of check in phase2: 2, one per letter of "WOW", 2
Running == -1           \* main has not reached sys.exit

InitCheck ==
    /\ memory = SolveImage
    /\ pc = 32768
    /\ lcd = LcdInit
    /\ lcd2 = LcdInit
    /\ call = [op |-> "none", k |-> 0, before |-> LcdInit]
    /\ textId = 0
    /\ issued = 0
    /\ patchIdx = 0
    /\ regs = RegsInit
    /\ run = [fn |-> "main", passed |-> 0, failed |-> 0, status |-> Running]
    /\ hist = [made |-> 0, log |-> <<>>]

\* a faulty variant of Check: a failed check ends the run at once, as an
\* assert would
CheckAbort(condition) ==
    /\ run.status = Running
    /\ hist.made < Phase1Checks + Phase2Checks
    /\ run' = IF condition
                  THEN [run EXCEPT !.passed = run.passed + 1]
                  ELSE [run EXCEPT !.failed = run.failed + 1, !.status = 1]
    /\ hist' = [made |-> hist.made + 1, log |-> Append(hist.log, condition)]
    /\ UNCHANGED <<memory, pc, lcd, lcd2, call, textId, issued, patchIdx, regs>>

\* the next check(condition, message) of phase1 or phase2; the log holds
\* the PASS (TRUE) and FAIL (FALSE) lines printed
Check(condition) ==
    /\ run.status = Running
    /\ hist.made < Phase1Checks + Phase2Checks
    /\ run' = IF condition
                  THEN [run EXCEPT !.passed = run.passed + 1]
                  ELSE [run EXCEPT !.failed = run.failed + 1]
    /\ hist' = [made |-> hist.made + 1, log |-> Append(hist.log, condition)]
    /\ UNCHANGED <<memory, pc, lcd, lcd2, call, textId, issued, patchIdx, regs>>

\* sys.exit(1 if failed else 0), after phase1 and phase2 have returned
Exit ==
    /\ run.status = Running
    /\ hist.made = Phase1Checks + Phase2Checks
    /\ run' = [run EXCEPT !.status = IF run.failed # 0 THEN 1 ELSE 0]
    /\ UNCHANGED <<memory, pc, lcd, lcd2, call, textId, issued, patchIdx, hist, regs>>

NextCheck == (\E condition \in BOOLEAN : Check(condition)) \/ Exit

SpecCheck == InitCheck /\ [][NextCheck]_vars

\* the number of lines of the log that are PASS (b = TRUE) or FAIL (b = FALSE)
Lines(b) == Cardinality({i \in 1..Len(hist.log) : hist.log[i] = b})

\* C19: every call of check raises exactly one of passed and failed by one
\* (passed for a true condition, failed for a false one) and never ends the
\* run, so a failed check does not keep the later checks of phase1 and
\* phase2 from being made; at exit passed + failed is the number of checks
\* made, all twelve, and the exit status is nonzero exactly when failed > 0.
C19_SoftAssertions ==
    /\ run.passed = Lines(TRUE)
    /\ run.failed = Lines(FALSE)
    /\ run.passed + run.failed = hist.made
    /\ (run.status = -1 /\ hist.made < 12) => ENABLED Check(TRUE) /\ ENABLED Check(FALSE)
    /\ (run.status # -1) =>
           /\ hist.made = 12
           /\ run.passed + run.failed = 12
           /\ (run.status # 0) <=> (run.failed > 0)

\* witness of C19: the first check failed, the other eleven were made and
\* passed, and the run has exited with status 1
C19_Witness ==
    /\ run.status = 1
    /\ hist.log[1] = FALSE /\ \A i \in 2..12 : hist.log[i] = TRUE
    /\ run.passed = 11 /\ run.failed = 1

----------------------------------------------------------------------------
(* SpecLoop: the stepping loops, one event at a time: run_steps,           *)
(* run_until_tight_loop and run_until_solved of simulate.py and the GA     *)
(* loop of test_ga.py. The                                                 *)
(* loop, its count and the buttons held are chosen at the start; hist      *)
(* counts the injector consultations, the instructions and the snooper     *)
(* observations.                                                           *)

MaxLoopSteps == 3       \* largest n, max_steps and max_cycles tried
GaLoopAddr == 32773     \* ga_loop_addr: where the GA loop is resumed
GenStop == 1000         \* the generation at which the GA loop gives up

\* the ROM the loops run: LDA $6001 at 0x8000, BEQ to itself at 0x8003,
\* NOP at 0x8005; GA cells zero, PORTA with a stale CANCEL bit
LoopImage ==
    (32768 :> 173) @@ (32769 :> 1) @@ (32770 :> 96)
        @@ (32771 :> 240) @@ (32772 :> 254) @@ (32773 :> 234)
        @@ (PORTA :> BTN_CANCEL) @@ (PORTB :> 0)
        @@ (DIST_LO :> 0) @@ (DIST_HI :> 0) @@ (GEN_LO :> 0) @@ (GEN_HI :> 0)

\* what an instruction may leave behind: DIST_LO, DIST_HI, GEN_LO, GEN_HI
\* and the program counter
LoopSnapshots ==
    { <<5, 0, 7, 0, 32768>>,        \* running, next is LDA $6001
      <<5, 0, 7, 0, 32771>>,        \* running, next is the tight loop
      <<5, 0, 7, 0, 32773>>,        \* running, next is NOP
      <<0, 0, 42, 0, 32771>>,       \* solved, in the tight loop
      <<5, 0, 232, 3, 32771>> }     \* generation 1000, in the tight loop

\* the loops: their name, and whether they take a buttons argument
LoopFns == {"run_steps", "run_until_tight_loop", "run_until_solved", "ga_loop"}

\* what the loop returns when its count is used up after i passes
LoopEnd(fn, i) ==
    IF fn = "run_until_tight_loop" THEN <<-1>>
    ELSE IF fn = "run_until_solved" THEN <<Timeout, i>>
    ELSE <<>>

\* where a pass of the loop begins
LoopHead(fn) == IF fn = "ga_loop" THEN "detect" ELSE "inject"

InitLoop ==
    /\ memory = LoopImage
    /\ pc \in {32768, 32771}
    /\ lcd = LcdInit
    /\ lcd2 = LcdInit
    /\ call = [op |-> "none", k |-> 0, before |-> LcdInit]
    /\ textId = 0
    /\ issued = 0
    /\ patchIdx = 0
    /\ regs = RegsInit
    /\ \E fn \in LoopFns, n \in 0..MaxLoopSteps, buttons \in {0, BTN_MORSE} :
           /\ fn \in {"ga_loop", "run_until_solved"} => buttons = 0
           /\ run = [fn |-> fn, n |-> n, i |-> 0, buttons |-> buttons,
                     at |-> IF n > 0 THEN LoopHead(fn) ELSE "done",
                     result |-> IF n > 0 THEN <<>> ELSE LoopEnd(fn, 0)]
    /\ hist = [injects |-> 0, steps |-> 0, observes |-> 0,
               pending |-> 0, stepInjects |-> 0, blockedSteps |-> 0,
               last |-> "none"]

\* inject_buttons(mpu, buttons) at the head of a pass
LoopInject ==
    /\ run.at = "inject"
    /\ memory' = InjectButtons(memory, pc, run.buttons)
    /\ run' = [run EXCEPT !.at = IF run.fn = "run_until_tight_loop"
                                     THEN "detect" ELSE "step"]
    /\ hist' = [hist EXCEPT !.injects = hist.injects + 1,
                            !.pending = hist.pending + 1,
                            !.last = "inject"]
    /\ UNCHANGED <<pc, lcd, lcd2, call, textId, issued, patchIdx, regs>>

\* a faulty variant of LoopDetect: run_until_tight_loop counts the blocked
\* instruction in the value it returns
LoopDetectCountsBlocked ==
    /\ run.at = "detect"
    /\ IF ~DetectTightLoop(memory, pc)
           THEN run' = [run EXCEPT !.at = "step"] /\ pc' = pc
       ELSE IF run.fn = "run_until_tight_loop"
           THEN run' = [run EXCEPT !.at = "done", !.result = <<run.i + 1>>] /\ pc' = pc
       ELSE IF Dist(memory) = 0 \/ Gen(memory) >= GenStop
           THEN run' = [run EXCEPT !.at = "done"] /\ pc' = pc
       ELSE run' = run /\ pc' = GaLoopAddr
    /\ hist' = [hist EXCEPT !.last = "detect"]
    /\ UNCHANGED <<memory, lcd, lcd2, call, textId, issued, patchIdx, regs>>

\* if detect_tight_loop(mpu): run_until_tight_loop returns i; the GA loop
\* stops on dist == 0 or gen >= 1000 and otherwise sets mpu.pc to
\* ga_loop_addr and starts its next pass
LoopDetect ==
    /\ run.at = "detect"
    /\ IF ~DetectTightLoop(memory, pc)
           THEN run' = [run EXCEPT !.at = "step"] /\ pc' = pc
       ELSE IF run.fn = "run_until_tight_loop"
           THEN run' = [run EXCEPT !.at = "done", !.result = <<run.i>>] /\ pc' = pc
       ELSE IF Dist(memory) = 0 \/ Gen(memory) >= GenStop
           THEN run' = [run EXCEPT !.at = "done"] /\ pc' = pc
       ELSE run' = run /\ pc' = GaLoopAddr
    /\ hist' = [hist EXCEPT !.last = "detect"]
    /\ UNCHANGED <<memory, lcd, lcd2, call, textId, issued, patchIdx, regs>>

\* mpu.step()
LoopStep(snap) ==
    /\ run.at = "step"
    /\ memory' = MpuWrite(memory, snap)
    /\ pc' = snap[5]
    /\ regs' = IF IsLdaPorta(memory, pc) THEN Lda(regs, memory[PORTA]) ELSE regs
    /\ run' = [run EXCEPT !.at = "observe"]
    /\ hist' = [hist EXCEPT !.steps = hist.steps + 1,
                            !.stepInjects = hist.pending,
                            !.pending = 0,
                            !.blockedSteps = hist.blockedSteps
                                + (IF DetectTightLoop(memory, pc) THEN 1 ELSE 0),
                            !.last = "step"]
    /\ UNCHANGED <<lcd, lcd2, call, textId, issued, patchIdx>>

\* lcd.step(), then the loop's count (run_until_solved looks at the GA
\* cells when that is due): the next pass, or the end of the loop
LoopObserve ==
    /\ run.at = "observe"
    /\ lcd' = LcdStepOp(lcd, memory[PORTA], memory[PORTB])
    /\ run' = IF run.fn = "run_until_solved" /\ SampleDue(run.i + 1) /\ Solved(memory)
                  THEN [run EXCEPT !.i = run.i + 1, !.at = "done",
                                   !.result = <<Gen(memory), run.i + 1>>]
              ELSE IF run.i + 1 < run.n
                  THEN [run EXCEPT !.i = run.i + 1, !.at = LoopHead(run.fn)]
                  ELSE [run EXCEPT !.i = run.i + 1, !.at = "done",
                                   !.result = LoopEnd(run.fn, run.i + 1)]
    /\ hist' = [hist EXCEPT !.observes = hist.observes + 1, !.last = "observe"]
    /\ UNCHANGED <<memory, pc, lcd2, call, textId, issued, patchIdx, regs>>

NextLoop ==
    \/ LoopInject
    \/ LoopDetect
    \/ \E snap \in LoopSnapshots : LoopStep(snap)
    \/ LoopObserve

SpecLoop == InitLoop /\ [][NextLoop]_vars

\* in every loop an instruction is followed by one snooper observation
\* before anything else happens, so the observations made equal the
\* instructions executed whenever no observation is due
StepObservePaired ==
    /\ hist.last = "step" => run.at = "observe" /\ hist.steps = hist.observes + 1
    /\ hist.last # "step" => hist.steps = hist.observes

\* C20 as stated, not true of the code: in every stepping loop each
\* executed instruction is immediately preceded by exactly one consultation
\* of the stimulus injector and immediately followed by exactly one snooper
\* observation before the next instruction, so the observations made equal
\* the instructions executed.
C20_InjectStepObserve ==
    /\ hist.last = "step" => hist.stepInjects = 1
    /\ StepObservePaired

\* the upcoming instruction is a JMP to itself or a BEQ at most 100 bytes
\* back (offset byte 9A..FF)
Blocked ==
    \/ memory[pc] = 76 /\ memory[pc + 1] + 256 * memory[pc + 2] = pc
    \/ memory[pc] = 240 /\ memory[pc + 1] >= 154

\* C21: run_until_tight_loop executes at most max_steps instructions and
\* then returns; when it returns i >= 0 exactly i instructions were
\* executed, none of them with detect_tight_loop true before it, and
\* detect_tight_loop is true in the state it returns in, whose blocked
\* instruction is not executed; when it returns -1 exactly max_steps
\* instructions were executed, none of them with detect_tight_loop true
\* before it; a blocked state that is not reached in time ends in -1, not in
\* an error.
C21_TightLoopResult ==
    (run.fn = "run_until_tight_loop") =>
        /\ hist.steps <= run.n
        /\ hist.blockedSteps = 0
        /\ run.at # "done" => run.result = <<>> /\ ENABLED NextLoop
        /\ run.at = "done" =>
               \/ /\ run.result = <<-1>>
                  /\ hist.steps = run.n
               \/ /\ run.result = <<hist.steps>>
                  /\ hist.steps < run.n
                  /\ hist.observes = hist.steps
                  /\ Blocked

\* witness of C21: with max_steps 3, two instructions were executed, the
\* third pass found the BEQ to itself at 0x8003 and 2 was returned
C21_Witness ==
    /\ run.fn = "run_until_tight_loop" /\ run.n = 3
    /\ run.at = "done" /\ run.result = <<2>>
    /\ hist.steps = 2 /\ hist.blockedSteps = 0
    /\ pc = 32771 /\ Blocked

\* C22: once stepping has begun, in run_steps, run_until_tight_loop,
\* run_until_solved and the GA loop every event that is not the execution of
\* an instruction leaves all memory cells but PORTA as they are, PORTA being
\* written by the injector only, leaves the registers a, x, y, sp and p as
\* they are, and leaves the program counter as it is, except when the GA
\* loop finds the CPU in a tight loop and resumes it at ga_loop_addr.
C22_HarnessWrites ==
    [][ (hist'.last # "step") =>
            /\ \A x \in DOMAIN memory \cup DOMAIN memory' :
                   x # PORTA => MemAt(memory', x) = MemAt(memory, x)
            /\ memory'[PORTA] # memory[PORTA] => hist'.last = "inject"
            /\ regs' = regs
            /\ pc' # pc =>
                   /\ run.fn = "ga_loop" /\ hist'.last = "detect"
                   /\ Blocked
                   /\ pc' = GaLoopAddr
      ]_vars

\* witness of C22: run_steps, holding MORSE, has consulted the injector at
\* LDA $6001 a second time; PORTA, 08 at the start, now holds 01 and nothing
\* else has been written by the harness
C22_Witness ==
    /\ run.fn = "run_steps" /\ run.buttons = BTN_MORSE
    /\ hist.last = "inject" /\ hist.injects = 2 /\ hist.steps = 1
    /\ pc = 32768
    /\ memory[PORTA] = 1 /\ memory[PORTB] = 0
    /\ regs.a = 1

----------------------------------------------------------------------------
(* morse_element, enter_morse_char                                         *)

DOT_HOLD == 5000        \* steps BTN_MORSE is held for a dot
DASH_HOLD == 90000      \* steps BTN_MORSE is held for a dash
SETTLE == 5000          \* steps between two elements
CONFIRM_WAIT == 1500000 \* steps waited for the auto-confirm

\* a faulty variant of Hold: dot and dash are mixed up
HoldSwapped(elem) == IF elem = "-" THEN DOT_HOLD ELSE DASH_HOLD

\* hold = DASH_HOLD if is_dash else DOT_HOLD, with is_dash = (elem == "-")
Hold(elem) == IF elem = "-" THEN DASH_HOLD ELSE DOT_HOLD

----------------------------------------------------------------------------
(* SpecMorse: enter_morse_char keying in one character, each run_steps     *)
(* call taken as one step: its n instructions are executed with the same   *)
(* buttons handed to the injector before each, and the firmware may or may *)
(* not have polled PORTA meanwhile.                                        *)

MaxElements == 3        \* longest morse code tried

\* the codes keyed in: every string of dots and dashes up to MaxElements
MorseCodes == UNION { [1..n -> {".", "-"}] : n \in 0..MaxElements }

InitMorse ==
    /\ memory = LoopImage
    /\ pc = 32768
    /\ lcd = LcdInit
    /\ lcd2 = LcdInit
    /\ call = [op |-> "none", k |-> 0, before |-> LcdInit]
    /\ textId = 0
    /\ issued = 0
    /\ patchIdx = 0
    /\ regs = RegsInit
    /\ \E elements \in MorseCodes :
           run = [fn |-> "enter_morse_char", elements |-> elements, idx |-> 1,
                  at |-> IF elements = <<>> THEN "confirm" ELSE "hold"]
    /\ hist = [calls |-> <<>>, executed |-> 0]

\* run_steps(mpu, lcd, n, buttons) as a whole: n times inject_buttons(mpu,
\* buttons), mpu.step(), lcd.step(); polled says whether the firmware came
\* to an LDA $6001 during the call, next is where it stands afterwards
RunSteps(n, buttons, polled, next) ==
    LET injected == IF polled /\ n > 0
                        THEN MemWrite(memory, PORTA,
                                 (memory[PORTA] \div 16) * 16 + (buttons % 16))
                        ELSE memory
    IN  /\ memory' = injected
        /\ pc' = IF n > 0 THEN next ELSE pc
        /\ regs' = IF polled /\ n > 0 THEN Lda(regs, injected[PORTA]) ELSE regs
        /\ lcd' = IF n > 0 THEN LcdStepOp(lcd, injected[PORTA], injected[PORTB]) ELSE lcd
        /\ hist' = [calls |-> Append(hist.calls,
                                  [buttons |-> buttons, n |-> n,
                                   masks |-> IF n > 0 THEN {buttons} ELSE {}]),
                    executed |-> hist.executed + n]

\* morse_element: run_steps(mpu, lcd, hold, buttons=BTN_MORSE)
MorseHold ==
    /\ run.at = "hold"
    /\ \E polled \in BOOLEAN, next \in {32768, 32771} :
           RunSteps(Hold(run.elements[run.idx]), BTN_MORSE, polled, next)
    /\ run' = [run EXCEPT !.at = "settle"]
    /\ UNCHANGED <<lcd2, call, textId, issued, patchIdx>>

\* morse_element: run_steps(mpu, lcd, SETTLE, buttons=0), then the next
\* element of the for loop
MorseSettle ==
    /\ run.at = "settle"
    /\ \E polled \in BOOLEAN, next \in {32768, 32771} :
           RunSteps(SETTLE, 0, polled, next)
    /\ run' = [run EXCEPT !.idx = run.idx + 1,
                          !.at = IF run.idx < Len(run.elements)
                                     THEN "hold" ELSE "confirm"]
    /\ UNCHANGED <<lcd2, call, textId, issued, patchIdx>>

\* enter_morse_char: run_steps(mpu, lcd, CONFIRM_WAIT, buttons=0)
MorseConfirm ==
    /\ run.at = "confirm"
    /\ \E polled \in BOOLEAN, next \in {32768, 32771} :
           RunSteps(CONFIRM_WAIT, 0, polled, next)
    /\ run' = [run EXCEPT !.at = "done"]
    /\ UNCHANGED <<lcd2, call, textId, issued, patchIdx>>

NextMorse == MorseHold \/ MorseSettle \/ MorseConfirm

SpecMorse == InitMorse /\ [][NextMorse]_vars

\* the schedule of a code: per element BTN_MORSE (01) for 5000 steps (dot)
\* or 90000 steps (dash) and then no button for 5000 steps, at the end no
\* button for 1500000 steps
RECURSIVE Schedule(_)
Schedule(elements) ==
    IF elements = <<>> THEN << <<0, 1500000>> >>
    ELSE << <<1, IF Head(elements) = "-" THEN 90000 ELSE 5000>>, <<0, 5000>> >>
            \o Schedule(Tail(elements))

\* the steps of the first k entries of a schedule
RECURSIVE StepsOf(_, _)
StepsOf(sched, k) == IF k = 0 THEN 0 ELSE sched[k][2] + StepsOf(sched, k - 1)

\* C23: enter_morse_char drives the button mask through a fixed
\* step-counted schedule: for each element in order exactly BTN_MORSE for
\* DOT_HOLD steps (dot) or DASH_HOLD steps (dash), then 0 for SETTLE steps,
\* and after the last element 0 for CONFIRM_WAIT steps; within a hold or a
\* gap the injector is handed no other mask; the instructions executed are
\* those of the schedule so far, and at the end their sum over the elements
\* plus CONFIRM_WAIT.
C23_MorseSchedule ==
    LET sched == Schedule(run.elements)
        k == Len(hist.calls)
    IN  /\ k <= Len(sched)
        /\ \A j \in 1..k :
               /\ hist.calls[j].buttons = sched[j][1]
               /\ hist.calls[j].n = sched[j][2]
               /\ hist.calls[j].masks = {sched[j][1]}
        /\ hist.executed = StepsOf(sched, k)
        /\ run.at = "done" <=> k = Len(sched)
        /\ run.at # "done" => ENABLED NextMorse

\* witness of C23: W (.--) has been keyed in: seven run_steps calls and
\* 1,700,000 instructions
C23_Witness ==
    /\ run.elements = <<".", "-", "-">> /\ run.at = "done"
    /\ Len(hist.calls) = 7
    /\ hist.calls[1] = [buttons |-> 1, n |-> 5000, masks |-> {1}]
    /\ hist.calls[3] = [buttons |-> 1, n |-> 90000, masks |-> {1}]
    /\ hist.calls[7] = [buttons |-> 0, n |-> 1500000, masks |-> {0}]
    /\ hist.executed = 1700000

============================================================================
